---- MODULE Spec2Model ----
(***************************************************************************)
(* Signal evaluation, position sizing and position lifecycle of the three  *)
(* strategies of the repository:                                           *)
(*   Y_  strategies/YuanbaoSMABollingStrategy  (long and short)            *)
(*   S_  strategies/SMABollingStrategy         (long only)                 *)
(*   T_  strategies/TemaTrendFollowingCustom   (long and short)            *)
(*                                                                         *)
(* Numbers are fixed point integers: prices and ATR in price units, ADX,   *)
(* RSI and CMO in points, band width in thousandths, quantities in units   *)
(* of 10^-6 (the precision=6 of size_to_qty).  A float NaN, a float inf    *)
(* and Python's None are the values NaN, Inf and None below; every         *)
(* comparison with NaN is false, as in Python.                             *)
(*                                                                         *)
(* The indicator library is outside the repository.  Its outputs are       *)
(* inputs of the model (ind), with the library's warm-up rule: the entry   *)
(* of a sequential output is NaN until the window holds enough candles.    *)
(***************************************************************************)
EXTENDS Integers, Sequences, FiniteSets, TLC

VARIABLES
    variant,            \* which strategy class is running
    n,                  \* len(self.candles)
    candle,             \* self.candles[-1] = <<timestamp, open, close, high, low, volume>>
    ind,                \* latest outputs of the indicator library on self.candles
    htf,                \* what get_candles returns for the higher timeframe
    lib,                \* does indexing a sequential=False result give its value?
    ret,                \* what the last call of each predicate returned
    available_margin,   \* self.available_margin
    position,           \* self.position, owned by the host
    entry_price,        \* self.entry_price (Yuanbao)
    stop_loss,          \* self.stop_loss: <<>> unset, <<price>> or <<qty, price>>
    take_profit,        \* self.take_profit, likewise
    buy,                \* self.buy: <<>> unset or <<qty, price>>
    sell,               \* self.sell, likewise
    qty_ret,            \* what calculate_position_size last returned
    liquidated,         \* self.liquidate() was called by the last update_position
    raised,             \* the last callback ended in an exception
    last                \* the operation the host ran last

inputs  == <<variant, n, candle, ind, htf, lib>>
session == <<available_margin, position, entry_price, stop_loss, take_profit,
             buy, sell, qty_ret, liquidated, raised, last>>
vars    == <<inputs, ret, session>>

-----------------------------------------------------------------------------
(* Floats *)

NaN  == 0 - 2147483647
None == 0 - 2147483646
Inf  == 2147483647

IsNum(a) == a # NaN /\ a # None

Lt(a, b) == a # NaN /\ b # NaN /\ a < b
Gt(a, b) == Lt(b, a)
Le(a, b) == a # NaN /\ b # NaN /\ a <= b
Ge(a, b) == Le(b, a)

Sub(a, b) == IF a = NaN \/ b = NaN THEN NaN ELSE a - b
Abs(a)    == IF a = NaN THEN NaN ELSE IF a < 0 THEN 0 - a ELSE a

\* what a call returned: not called yet, True, False, or an exception
B(raises, value) == IF raises THEN "E" ELSE IF value THEN "T" ELSE "F"

-----------------------------------------------------------------------------
(* Bounds of the model *)

MaxLen == 240           \* the longest candle window

-----------------------------------------------------------------------------
(* Parameters of the strategies *)

Y_rsi_period         == 12
Y_rsi_sma_period     == 14
Y_bb_period          == 20
Y_adx_period         == 14
Y_atr_period         == 14
Y_min_trend_period   == 3
Y_adx_threshold      == 22
Y_bb_width_threshold == 15      \* 0.015, in thousandths
Y_sma_trend_period   == 50
Y_rsi_volatility_max == 5

S_rsi_period         == 14
S_rsi_sma_period     == 14
S_bb_period          == 20
S_adx_period         == 14
S_adx_threshold      == 25
S_bb_width_threshold == 20      \* 0.02, in thousandths
S_tema_short_period  == 10
S_tema_long_period   == 80

T_tema_short_period  == 10
T_tema_long_period   == 80
T_adx_threshold      == 40
T_cmo_threshold      == 40
T_default_period     == 14

WidthScale == 1000      \* band width is kept in thousandths
EpsInv     == 1000000   \* 1 / 1e-6, the substitute denominator of bb_width

-----------------------------------------------------------------------------
(* The candle record.  Index i of the Python row is index i+1 here. *)

Row(c, i) == c[i + 1]

Variants == {"Yuanbao", "SMABolling", "Tema"}

\* a pair <<x[-2], x[-1]>> of a sequential output
Prev(p) == p[1]
Cur(p)  == p[2]

-----------------------------------------------------------------------------
(* YuanbaoSMABollingStrategy *)

Y_close  == Row(candle, 4)
Y_volume == Row(candle, 5)

\* min(self.bb_middle) is the first entry of the series unless a later one is
\* smaller; the first entry is a warm-up NaN, so the test "> 0" is false and
\* the list with zeros replaced by 1e-6 is the denominator.  When the test is
\* true no entry is zero and the two denominators agree.
Y_bb_width ==
    LET u == ind.bb.upperband
        l == ind.bb.lowerband
        m == ind.bb.middleband
    IN  IF u = NaN \/ l = NaN \/ m = NaN THEN NaN
        ELSE IF m = 0 THEN (u - l) * WidthScale * EpsInv
        ELSE ((u - l) * WidthScale) \div m

\* None, the latest 1h SMA50, or an exception (Raise) when the scalar that
\* sequential=False returns cannot be indexed
Raise == 0 - 2147483645

Y_hourly_sma ==
    IF htf.state = "ok"
    THEN IF lib THEN htf.sma ELSE Raise
    ELSE None

\* the sideways test without its RSI term
Y_is_sideways_market_no_rsi ==
    IF n < 2 THEN TRUE
    ELSE /\ Lt(Cur(ind.adx), Y_adx_threshold)
         /\ Lt(Y_bb_width, Y_bb_width_threshold)

Y_is_sideways_market ==
    IF n < 2 THEN TRUE
    ELSE /\ Lt(Cur(ind.adx), Y_adx_threshold)
         /\ Lt(Y_bb_width, Y_bb_width_threshold)
         /\ Lt(Abs(Sub(Cur(ind.rsi), Prev(ind.rsi))), Y_rsi_volatility_max)

Count(flags) == Cardinality({i \in DOMAIN flags : flags[i]})

Y_adx_rising ==
    Gt(Cur(ind.adx), Y_adx_threshold) /\ Gt(Cur(ind.adx), Prev(ind.adx))

\* utils.ema(self.volume, period=20) is ind.avg_volume; 1.5 is 15 / 10
Y_volume_spike == Gt(Y_volume * 10, ind.avg_volume * 15)

Y_trend_raises == n >= Y_min_trend_period * 2 /\ Y_hourly_sma = Raise

Y_is_strong_uptrend ==
    IF n < Y_min_trend_period * 2 \/ Y_trend_raises THEN FALSE
    ELSE LET above_sma       == Gt(Y_close, ind.sma_trend)
             hourly_trend_up == Y_hourly_sma # None /\ Gt(Y_close, Y_hourly_sma)
         IN  Count(<<above_sma, Y_adx_rising, hourly_trend_up, Y_volume_spike>>) >= 3

Y_is_strong_downtrend ==
    IF n < Y_min_trend_period * 2 \/ Y_trend_raises THEN FALSE
    ELSE LET below_sma         == Lt(Y_close, ind.sma_trend)
             hourly_trend_down == Y_hourly_sma # None /\ Lt(Y_close, Y_hourly_sma)
         IN  Count(<<below_sma, Y_adx_rising, hourly_trend_down, Y_volume_spike>>) >= 3

\* is_strong_uptrend() is called on every path that passes the sideways gate
Y_should_long_raises  == ~Y_is_sideways_market /\ Y_trend_raises
Y_should_short_raises == ~Y_is_sideways_market /\ Y_trend_raises

\* should_long without the sideways gate
Y_should_long_ungated ==
    IF Y_trend_raises THEN FALSE
    ELSE /\ Lt(Y_close, ind.bb.middleband)
         /\ Gt(Cur(ind.rsi), Cur(ind.rsi_sma))
         /\ Le(Prev(ind.rsi), Prev(ind.rsi_sma))
         /\ Y_is_strong_uptrend

\* should_short left as a copy of should_long
Y_should_short_copied ==
    IF Y_is_sideways_market \/ Y_should_short_raises THEN FALSE
    ELSE /\ Lt(Y_close, ind.bb.middleband)
         /\ Gt(Cur(ind.rsi), Cur(ind.rsi_sma))
         /\ Le(Prev(ind.rsi), Prev(ind.rsi_sma))
         /\ Y_is_strong_uptrend

Y_should_long ==
    IF Y_is_sideways_market \/ Y_should_long_raises THEN FALSE
    ELSE LET price_below_mid == Lt(Y_close, ind.bb.middleband)
             rsi_cross_above == /\ Gt(Cur(ind.rsi), Cur(ind.rsi_sma))
                                /\ Le(Prev(ind.rsi), Prev(ind.rsi_sma))
         IN  price_below_mid /\ rsi_cross_above /\ Y_is_strong_uptrend

Y_should_short ==
    IF Y_is_sideways_market \/ Y_should_short_raises THEN FALSE
    ELSE LET price_above_upper == Gt(Y_close, ind.bb.upperband)
             rsi_cross_below   == /\ Lt(Cur(ind.rsi), Cur(ind.rsi_sma))
                                  /\ Ge(Prev(ind.rsi), Prev(ind.rsi_sma))
         IN  price_above_upper /\ rsi_cross_below /\ Y_is_strong_downtrend

-----------------------------------------------------------------------------
(* SMABollingStrategy *)

S_current_price == Row(candle, 2)

\* no guard: a zero middle band gives 0/0 = NaN or x/0 = inf (numpy floats)
S_bb_width ==
    LET u == ind.bb.upperband
        l == ind.bb.lowerband
        m == ind.bb.middleband
    IN  IF u = NaN \/ l = NaN \/ m = NaN THEN NaN
        ELSE IF m = 0 THEN (IF u = l THEN NaN ELSE Inf)
        ELSE ((u - l) * WidthScale) \div m

\* ta.tema(...) on the strategy's own candles: <<short period, long period>>
S_short_term_trend ==
    IF Gt(ind.tema[1], ind.tema[2]) THEN 1 ELSE 0 - 1

\* ta.tema(candles_4h, ...) raises on None and on an empty array
S_long_term_trend_raises == htf.state \in {"none", "empty"}

S_long_term_trend ==
    IF Gt(htf.tema[1], htf.tema[2]) THEN 1 ELSE 0 - 1

S_is_sideways_market ==
    IF n < 2 THEN TRUE
    ELSE \/ Lt(Cur(ind.adx), S_adx_threshold)
         \/ Lt(S_bb_width, S_bb_width_threshold)

\* "a and b": b is evaluated only when a is true
S_is_uptrend_raises   == S_short_term_trend = 1 /\ S_long_term_trend_raises
S_is_downtrend_raises == S_short_term_trend = 0 - 1 /\ S_long_term_trend_raises

S_is_uptrend ==
    /\ ~S_is_uptrend_raises
    /\ S_short_term_trend = 1
    /\ S_long_term_trend = 1

S_is_downtrend ==
    /\ ~S_is_downtrend_raises
    /\ S_short_term_trend = 0 - 1
    /\ S_long_term_trend = 0 - 1

S_should_long_raises == ~S_is_sideways_market /\ S_is_uptrend_raises

S_should_long ==
    IF S_is_sideways_market \/ S_should_long_raises THEN FALSE
    ELSE IF S_is_uptrend
         THEN /\ Lt(S_current_price, ind.bb.middleband)
              /\ Gt(Cur(ind.rsi_sma), Cur(ind.rsi))
         ELSE /\ Lt(S_current_price, ind.bb.lowerband)
              /\ Lt(Cur(ind.rsi), Cur(ind.rsi_sma))

S_should_short == FALSE

-----------------------------------------------------------------------------
(* TemaTrendFollowing *)

T_short_term_trend ==
    IF Gt(ind.tema[1], ind.tema[2]) THEN 1 ELSE 0 - 1

T_long_term_trend_raises == htf.state \in {"none", "empty"}

T_long_term_trend ==
    IF Gt(htf.tema[1], htf.tema[2]) THEN 1 ELSE 0 - 1

T_should_long_raises  == T_short_term_trend = 1 /\ T_long_term_trend_raises
T_should_short_raises == T_short_term_trend = 0 - 1 /\ T_long_term_trend_raises

\* should_long without the 4h confirmation
T_should_long_no_4h ==
    /\ T_short_term_trend = 1
    /\ Gt(Cur(ind.adx), T_adx_threshold)
    /\ Gt(ind.cmo, T_cmo_threshold)

T_should_long ==
    /\ ~T_should_long_raises
    /\ T_short_term_trend = 1
    /\ T_long_term_trend = 1
    /\ Gt(Cur(ind.adx), T_adx_threshold)
    /\ Gt(ind.cmo, T_cmo_threshold)

T_should_short ==
    /\ ~T_should_short_raises
    /\ T_short_term_trend = 0 - 1
    /\ T_long_term_trend = 0 - 1
    /\ Gt(Cur(ind.adx), T_adx_threshold)
    /\ Lt(ind.cmo, 0 - T_cmo_threshold)

-----------------------------------------------------------------------------
(* The three classes behind the one interface the host calls *)

is_sideways_market ==
    CASE variant = "Yuanbao"    -> B(FALSE, Y_is_sideways_market)
      [] variant = "SMABolling" -> B(FALSE, S_is_sideways_market)

uptrend ==
    CASE variant = "Yuanbao"    -> B(Y_trend_raises, Y_is_strong_uptrend)
      [] variant = "SMABolling" -> B(S_is_uptrend_raises, S_is_uptrend)
      [] variant = "Tema"       -> B(T_should_long_raises,
                                     T_short_term_trend = 1 /\ T_long_term_trend = 1)

downtrend ==
    CASE variant = "Yuanbao"    -> B(Y_trend_raises, Y_is_strong_downtrend)
      [] variant = "SMABolling" -> B(S_is_downtrend_raises, S_is_downtrend)
      [] variant = "Tema"       -> B(T_should_short_raises,
                                     T_short_term_trend = 0 - 1 /\ T_long_term_trend = 0 - 1)

should_long ==
    CASE variant = "Yuanbao"    -> B(Y_should_long_raises, Y_should_long)
      [] variant = "SMABolling" -> B(S_should_long_raises, S_should_long)
      [] variant = "Tema"       -> B(T_should_long_raises, T_should_long)

should_short ==
    CASE variant = "Yuanbao"    -> B(Y_should_short_raises, Y_should_short)
      [] variant = "SMABolling" -> B(FALSE, S_should_short)
      [] variant = "Tema"       -> B(T_should_short_raises, T_should_short)

-----------------------------------------------------------------------------
(* Inputs: the candle window and what the indicator library returns on it *)

\* candles a sequential output needs before its latest entry is defined
Need_sma(p)  == p
Need_bb(p)   == p
Need_rsi(p)  == p + 1
Need_atr(p)  == p + 1
Need_cmo(p)  == p + 1
Need_adx(p)  == 2 * p
Need_tema(p) == 3 * (p - 1) + 1

Periods(v) ==
    CASE v = "Yuanbao" ->
           [rsi |-> Y_rsi_period, rsi_sma |-> Y_rsi_sma_period, bb |-> Y_bb_period,
            adx |-> Y_adx_period, atr |-> Y_atr_period,
            tema_short |-> T_tema_short_period, tema_long |-> T_tema_long_period]
      [] v = "SMABolling" ->
           [rsi |-> S_rsi_period, rsi_sma |-> S_rsi_sma_period, bb |-> S_bb_period,
            adx |-> S_adx_period, atr |-> T_default_period,
            tema_short |-> S_tema_short_period, tema_long |-> S_tema_long_period]
      [] v = "Tema" ->
           [rsi |-> T_default_period, rsi_sma |-> T_default_period, bb |-> T_default_period,
            adx |-> T_default_period, atr |-> T_default_period,
            tema_short |-> T_tema_short_period, tema_long |-> T_tema_long_period]

\* the values of an entry that needs `need` candles, in a window of `len`
Dom(S, need, len) == IF len >= need THEN S ELSE {NaN}

WindowLens == {1, 5, 21, 27, 28, MaxLen}
PriceVals  == {890, 996, 1004, 1200}
VolumeVals == {100, 200}

\* low <= close <= high
Candles(prices, volumes) ==
    {<<0, x[1], x[1], x[1], x[2], x[3]>> :
        x \in {y \in prices \X prices \X volumes : y[2] <= y[1]}}

\* the value sets the inputs of one evaluation are drawn from
EvalVals(v) ==
    [adx_prev  |-> IF v = "Yuanbao" THEN {20, 40} ELSE {20},
     adx_cur   |-> IF v = "Tema" THEN {30, 50} ELSE {15, 30},
     rsi_prev  |-> IF v = "Yuanbao" THEN {49, 52} ELSE {50},
     rsi_cur   |-> CASE v = "Yuanbao" -> {40, 51}
                     [] v = "SMABolling" -> {40, 60}
                     [] v = "Tema" -> {50},
     bands     |-> {<<0, 0>>, <<1000, 5>>, <<1000, 100>>},
     sma_trend |-> IF v = "Yuanbao" THEN {900, 1100} ELSE {1000},
     atr       |-> {50},
     recent    |-> {50},
     tema      |-> IF v = "Yuanbao" THEN {1000} ELSE {990, 1010},
     cmo       |-> IF v = "Tema" THEN {0 - 50, 0, 50} ELSE {0}]

\* upper and lower lie one deviation above and below the middle band
Bands(D, need, len) ==
    IF len >= need
    THEN {[upperband |-> x[1] + x[2], middleband |-> x[1], lowerband |-> x[1] - x[2]] :
            x \in D.bands}
    ELSE {[upperband |-> NaN, middleband |-> NaN, lowerband |-> NaN]}

Snapshots(v, len, D) ==
    LET p == Periods(v) IN
    [adx        : Dom(D.adx_prev, Need_adx(p.adx) + 1, len)
                    \X Dom(D.adx_cur, Need_adx(p.adx), len),
     rsi        : Dom(D.rsi_prev, Need_rsi(p.rsi) + 1, len)
                    \X Dom(D.rsi_cur, Need_rsi(p.rsi), len),
     rsi_sma    : Dom({50}, p.rsi + p.rsi_sma + 1, len)
                    \X Dom({50}, p.rsi + p.rsi_sma, len),
     bb         : Bands(D, Need_bb(p.bb), len),
     sma_trend  : Dom(D.sma_trend, Need_sma(Y_sma_trend_period), len),
     avg_volume : {100},
     atr        : Dom(D.atr, Need_atr(p.atr), len),
     recent_atr : Dom(D.recent, Need_atr(p.atr), len),
     tema       : Dom(D.tema, Need_tema(p.tema_short), len)
                    \X Dom({1000}, Need_tema(p.tema_long), len),
     cmo        : Dom(D.cmo, Need_cmo(T_default_period), len)]

\* get_candles(exchange, symbol, timeframe): None, an empty series, a series
\* shorter than the indicator needs, or a long enough one
Higher(v) ==
    {[state |-> s, sma |-> None, tema |-> <<NaN, NaN>>] : s \in {"none", "empty", "short"}}
    \cup
    IF v = "Yuanbao"
    THEN {[state |-> "ok", sma |-> x, tema |-> <<NaN, NaN>>] : x \in {950, 1150}}
    ELSE {[state |-> "ok", sma |-> None, tema |-> <<x, 1000>>] : x \in {990, 1010}}

NoRet == [sideways |-> "-", up |-> "-", down |-> "-", long |-> "-", short |-> "-"]

\* no position, no pending order, no protective level, nothing raised
Flat == [type |-> "close", qty |-> 0, entry_price |-> None]

IdleSession ==
    /\ position = Flat
    /\ entry_price = None
    /\ stop_loss = <<>>
    /\ take_profit = <<>>
    /\ buy = <<>>
    /\ sell = <<>>
    /\ qty_ret = None
    /\ liquidated = FALSE
    /\ raised = FALSE
    /\ last = "init"

Init ==
    /\ variant \in Variants
    /\ n \in WindowLens
    /\ candle \in Candles(PriceVals, VolumeVals)
    /\ ind \in Snapshots(variant, n, EvalVals(variant))
    /\ htf \in Higher(variant)
    /\ lib \in BOOLEAN
    /\ (lib = FALSE => variant = "Yuanbao" /\ htf.state = "ok")
    /\ ret = NoRet
    /\ available_margin = 1000
    /\ IdleSession

-----------------------------------------------------------------------------
(* One evaluation: the host calls the predicates on the current window *)

Call_is_sideways_market ==
    /\ variant # "Tema"
    /\ ret' = [ret EXCEPT !.sideways = is_sideways_market]
    /\ UNCHANGED <<inputs, session>>

Call_trend ==
    /\ ret' = [ret EXCEPT !.up = uptrend, !.down = downtrend]
    /\ UNCHANGED <<inputs, session>>

Call_should_long ==
    /\ ret' = [ret EXCEPT !.long = should_long]
    /\ UNCHANGED <<inputs, session>>

Call_should_short ==
    /\ ret' = [ret EXCEPT !.short = should_short]
    /\ UNCHANGED <<inputs, session>>

Next ==
    \/ Call_is_sideways_market
    \/ Call_trend
    \/ Call_should_long
    \/ Call_should_short

Spec == Init /\ [][Next]_vars

-----------------------------------------------------------------------------
(* Position sizing *)

QtyScale == 1000000     \* quantities are floored to precision=6

Mul(a, k) == IF a = NaN THEN NaN ELSE a * k
Add(a, b) == IF a = NaN \/ b = NaN THEN NaN ELSE a + b

Y_min_margin                 == 10
Y_min_qty                    == 10
Y_risk_den                   == 100     \* max_risk_per_trade = 1 / 100
Y_stop_loss_atr_multiplier   == 2
Y_take_profit_atr_multiplier == 3
Y_recent_bars                == 20

\* the ATR used for sizing, as a fraction <<numerator, denominator>>:
\* atr[-1], or max(0.1, abs(close * 0.01)) on a window shorter than atr_period
Y_atr_value ==
    IF n >= Y_atr_period THEN <<ind.atr, 1>>
    ELSE IF Y_close * 10 >= 100 THEN <<Y_close, 100>> ELSE <<1, 10>>

\* max(a, b) of Python: a, unless b > a
PyMax(a, b) == IF Gt(b, a) THEN b ELSE a

\* calculate_position_size without the minimum-capital check
Y_calculate_position_size_no_min ==
    LET a   == Y_atr_value
        qty == IF a[1] = NaN THEN NaN
               ELSE IF a[1] = 0 THEN Inf
               ELSE (available_margin * (QtyScale \div Y_risk_den) * a[2])
                      \div (Y_stop_loss_atr_multiplier * a[1] * Y_close)
    IN  PyMax(qty, Y_min_qty * QtyScale)

\* a float division by a numpy zero gives inf, a NaN operand gives NaN
Y_calculate_position_size ==
    IF available_margin < Y_min_margin THEN 0
    ELSE LET a   == Y_atr_value
             qty == IF a[1] = NaN THEN NaN
                    ELSE IF a[1] = 0 THEN Inf
                    ELSE (available_margin * (QtyScale \div Y_risk_den) * a[2])
                           \div (Y_stop_loss_atr_multiplier * a[1] * Y_close)
         IN  PyMax(qty, Y_min_qty * QtyScale)

S_min_trade_amount == 25
S_stop_loss_factor == 4

\* trade_amount = available_margin * 0.5
S_trade_amount_below_min == available_margin * 5 < S_min_trade_amount * 10

S_go_long_qty == (available_margin * QtyScale) \div (2 * S_current_price)

-----------------------------------------------------------------------------
(* The session: entries, fills and the life of a position *)

SessionVariants == {"Yuanbao", "SMABolling"}
SessionLens     == {5, 14, MaxLen}
MarginVals      == {5, 40, 1000}

SessionVals(v) ==
    [adx_prev  |-> {20},
     adx_cur   |-> {30},
     rsi_prev  |-> {50},
     rsi_cur   |-> IF v = "SMABolling" THEN {40, 60} ELSE {51},
     bands     |-> {<<1000, 100>>},
     sma_trend |-> {900},
     atr       |-> IF v = "Yuanbao" THEN {0, 50} ELSE {50, 80},
     recent    |-> IF v = "Yuanbao" THEN {40, 60} ELSE {50},
     tema      |-> IF v = "SMABolling" THEN {990, 1010} ELSE {1000},
     cmo       |-> {0}]

SessionCandles(v) ==
    Candles(IF v = "Yuanbao" THEN {996, 1004} ELSE {996, 1004, 1200}, {100})

SessionInit ==
    /\ variant \in SessionVariants
    /\ n \in SessionLens
    /\ candle \in SessionCandles(variant)
    /\ ind \in Snapshots(variant, n, SessionVals(variant))
    /\ htf \in Higher(variant)
    /\ (variant = "Yuanbao" => htf.state = "none")
    /\ lib \in BOOLEAN
    /\ (lib = FALSE => variant = "Yuanbao")
    /\ ret = NoRet
    /\ available_margin \in MarginVals
    /\ IdleSession

\* the host appends a candle; the window never shrinks
NewCandle ==
    /\ \E len \in SessionLens :
          /\ len >= n
          /\ n' = len
          /\ ind' \in Snapshots(variant, len, SessionVals(variant))
    /\ candle' \in SessionCandles(variant)
    /\ qty_ret' = None
    /\ liquidated' = FALSE
    /\ raised' = FALSE
    /\ last' = "new_candle"
    /\ UNCHANGED <<variant, htf, lib, ret, available_margin, position, entry_price,
                   stop_loss, take_profit, buy, sell>>

Y_go_long ==
    LET qty == Y_calculate_position_size IN
    /\ qty_ret' = qty
    /\ buy' = IF Gt(qty, 0) THEN <<qty, Y_close>> ELSE buy
    /\ raised' = FALSE
    /\ UNCHANGED sell

Y_go_short ==
    LET qty == Y_calculate_position_size IN
    /\ qty_ret' = qty
    /\ sell' = IF Gt(qty, 0) THEN <<qty, Y_close>> ELSE sell
    /\ raised' = FALSE
    /\ UNCHANGED buy

S_go_long ==
    /\ buy' = IF S_trade_amount_below_min THEN buy
              ELSE <<S_go_long_qty, S_current_price>>
    /\ raised' = FALSE
    /\ UNCHANGED <<sell, qty_ret>>

S_go_short == UNCHANGED <<buy, sell, qty_ret, raised>>

\* the host calls go_long() with no position open and no entry pending
go_long ==
    /\ position.type = "close"
    /\ buy = <<>> /\ sell = <<>>
    /\ CASE variant = "Yuanbao"    -> Y_go_long
         [] variant = "SMABolling" -> S_go_long
    /\ liquidated' = FALSE
    /\ last' = "go_long"
    /\ UNCHANGED <<inputs, ret, available_margin, position, entry_price,
                   stop_loss, take_profit>>

go_short ==
    /\ position.type = "close"
    /\ buy = <<>> /\ sell = <<>>
    /\ CASE variant = "Yuanbao"    -> Y_go_short
         [] variant = "SMABolling" -> S_go_short
    /\ liquidated' = FALSE
    /\ last' = "go_short"
    /\ UNCHANGED <<inputs, ret, available_margin, position, entry_price,
                   stop_loss, take_profit>>

\* the position the host opens when the pending entry order fills
Filled ==
    IF buy # <<>>
    THEN [type |-> "long", qty |-> buy[1], entry_price |-> buy[2]]
    ELSE [type |-> "short", qty |-> sell[1], entry_price |-> sell[2]]

Y_on_open_position ==
    /\ entry_price' = Y_close
    /\ UNCHANGED <<stop_loss, take_profit>>

\* self.atr is ta.atr(self.candles): the latest ATR, a scalar
S_stop_loss_price(pos) ==
    Sub(pos.entry_price, Mul(ind.atr, S_stop_loss_factor))

S_on_open_position ==
    /\ stop_loss' = IF position'.type = "long"
                    THEN <<position'.qty, S_stop_loss_price(position')>>
                    ELSE stop_loss
    /\ UNCHANGED <<entry_price, take_profit>>

\* the host fills the entry order and calls on_open_position(order)
on_open_position ==
    /\ position.type = "close"
    /\ buy # <<>> \/ sell # <<>>
    /\ position' = Filled
    /\ buy' = <<>> /\ sell' = <<>>
    /\ CASE variant = "Yuanbao"    -> Y_on_open_position
         [] variant = "SMABolling" -> S_on_open_position
    /\ qty_ret' = None
    /\ liquidated' = FALSE
    /\ raised' = FALSE
    /\ last' = "on_open_position"
    /\ UNCHANGED <<inputs, ret, available_margin>>

\* recent_atr = ta.atr(self.candles[-20:], ..., sequential=False)[-1]
Y_update_raises ==
    /\ position.type \in {"long", "short"}
    /\ n >= Y_recent_bars
    /\ ~lib \/ entry_price = None

Y_update_position ==
    IF position.type = "close" \/ n < Y_recent_bars \/ Y_update_raises
    THEN /\ raised' = Y_update_raises
         /\ UNCHANGED <<stop_loss, take_profit>>
    ELSE LET sl == Mul(ind.recent_atr, Y_stop_loss_atr_multiplier)
             tp == Mul(ind.recent_atr, Y_take_profit_atr_multiplier)
         IN  /\ raised' = FALSE
             /\ IF position.type = "long"
                THEN /\ stop_loss' = <<Sub(entry_price, sl)>>
                     /\ take_profit' = <<Add(entry_price, tp)>>
                ELSE /\ stop_loss' = <<Add(entry_price, sl)>>
                     /\ take_profit' = <<Sub(entry_price, tp)>>

\* the close signal tested against the middle band in either trend
S_close_long_signal_middle_only ==
    Gt(S_current_price, ind.bb.middleband) /\ Lt(Cur(ind.rsi_sma), Cur(ind.rsi))

S_close_long_signal ==
    IF S_is_uptrend
    THEN Gt(S_current_price, ind.bb.upperband) /\ Lt(Cur(ind.rsi_sma), Cur(ind.rsi))
    ELSE Gt(S_current_price, ind.bb.middleband) /\ Lt(Cur(ind.rsi_sma), Cur(ind.rsi))

S_update_raises == Gt(position.qty, 0) /\ S_is_uptrend_raises

S_update_position ==
    IF ~Gt(position.qty, 0) \/ S_update_raises
    THEN /\ raised' = S_update_raises
         /\ liquidated' = FALSE
         /\ UNCHANGED <<stop_loss, take_profit>>
    ELSE /\ raised' = FALSE
         /\ stop_loss' = <<position.qty, S_stop_loss_price(position)>>
         /\ liquidated' = S_close_long_signal
         /\ UNCHANGED take_profit

update_position ==
    /\ CASE variant = "Yuanbao"    -> Y_update_position /\ liquidated' = FALSE
         [] variant = "SMABolling" -> S_update_position
    /\ qty_ret' = None
    /\ last' = "update_position"
    /\ UNCHANGED <<inputs, ret, available_margin, position, entry_price, buy, sell>>

\* on_close_position that clears the levels but keeps the entry price
Y_on_close_position_keeps_entry ==
    /\ stop_loss' = <<>>
    /\ take_profit' = <<>>
    /\ UNCHANGED entry_price

Y_on_close_position ==
    /\ stop_loss' = <<>>
    /\ take_profit' = <<>>
    /\ entry_price' = None

S_on_close_position == UNCHANGED <<stop_loss, take_profit, entry_price>>

\* the host closes the position and calls on_close_position(order)
on_close_position ==
    /\ position.type # "close"
    /\ position' = Flat
    /\ CASE variant = "Yuanbao"    -> Y_on_close_position
         [] variant = "SMABolling" -> S_on_close_position
    /\ qty_ret' = None
    /\ liquidated' = FALSE
    /\ raised' = FALSE
    /\ last' = "on_close_position"
    /\ UNCHANGED <<inputs, ret, available_margin, buy, sell>>

SessionNext ==
    \/ NewCandle
    \/ go_long
    \/ go_short
    \/ on_open_position
    \/ update_position
    \/ on_close_position

SessionSpec == SessionInit /\ [][SessionNext]_vars

-----------------------------------------------------------------------------
(* Properties of one evaluation (specification Spec) *)

NotTrue(r) == r \in {"-", "F", "E"}

\* C1: should_long() and should_short() are never both true on one window,
\* and SMABollingStrategy.should_short() is false on every window.
C1_Exclusive ==
    /\ ~(ret.long = "T" /\ ret.short = "T")
    /\ variant = "SMABolling" => ret.short \in {"-", "F"}

C1_Witness ==
    /\ variant = "Yuanbao"
    /\ ret.long = "T"
    /\ ret.short = "F"

\* C2: on a window where is_sideways_market() returns true, should_long()
\* and should_short() both return false.
C2_SidewaysGate ==
    ret.sideways = "T" =>
        /\ ret.long \in {"-", "F"}
        /\ ret.short \in {"-", "F"}

\* the gate alone keeps the long entry out: every other condition holds
C2_Witness ==
    /\ variant = "Yuanbao"
    /\ n >= 2
    /\ ret.sideways = "T"
    /\ ret.long = "F"
    /\ ret.short = "F"
    /\ Y_should_long_ungated

\* an indicator the sideways test reads has no value for the latest candle
SidewaysInputMissing ==
    /\ variant # "Tema"
    /\ \/ Cur(ind.adx) = NaN
       \/ ind.bb.middleband = NaN
       \/ variant = "Yuanbao" /\ (Cur(ind.rsi) = NaN \/ Prev(ind.rsi) = NaN)

\* C3: on a window too short for an indicator of the sideways test,
\* is_sideways_market() returns true and no entry is signalled.
C3_InsufficientIsSideways ==
    (SidewaysInputMissing /\ ret.sideways # "-") =>
        /\ ret.sideways = "T"
        /\ NotTrue(ret.long)
        /\ NotTrue(ret.short)

\* C7 as stated: in every variant a long entry needs the uptrend and a short
\* entry the downtrend.
C7_DirectionalGate ==
    /\ ret.long = "T" => uptrend = "T"
    /\ ret.short = "T" => downtrend = "T"

\* C7 as amended: that holds in Yuanbao and Tema; SMABolling also enters
\* long without an uptrend, when the price is below the lower band and RSI
\* is below its SMA, and never enters short.
C7_DirectionalGateAmended ==
    /\ variant \in {"Yuanbao", "Tema"} => C7_DirectionalGate
    /\ variant = "SMABolling" =>
          /\ ret.long = "T" =>
                \/ uptrend = "T"
                \/ /\ Lt(S_current_price, ind.bb.lowerband)
                   /\ Lt(Cur(ind.rsi), Cur(ind.rsi_sma))
          /\ ret.short # "T"

C7_Witness ==
    /\ variant = "Tema"
    /\ ret.long = "T"
    /\ ret.up = "T"

\* C8: the uptrend test and the downtrend test are never both true on one
\* window.
C8_SingleValued == ~(ret.up = "T" /\ ret.down = "T")

WeakAndNarrow ==
    /\ n >= 2
    /\ ret.sideways # "-"
    /\ CASE variant = "Yuanbao" ->
               /\ Lt(Cur(ind.adx), Y_adx_threshold)
               /\ Lt(Y_bb_width, Y_bb_width_threshold)
         [] variant = "SMABolling" ->
               /\ Lt(Cur(ind.adx), S_adx_threshold)
               /\ Lt(S_bb_width, S_bb_width_threshold)
         [] OTHER -> FALSE

\* C9 as stated: with the latest ADX and band width below their thresholds,
\* is_sideways_market() returns true and both entries are false, whatever
\* the RSI did.
C9_WeakNarrowIsSideways ==
    WeakAndNarrow =>
        /\ ret.sideways = "T"
        /\ NotTrue(ret.long)
        /\ NotTrue(ret.short)

\* C9 as amended: that holds in SMABolling; in Yuanbao the test returns true
\* exactly when, in addition, RSI moved by less than 5 points between the
\* last two candles.  Wherever it returns true both entries are false.
C9_WeakNarrowAmended ==
    WeakAndNarrow =>
        /\ variant = "SMABolling" => ret.sideways = "T"
        /\ variant = "Yuanbao" =>
              (ret.sideways = "T" <=>
                 Lt(Abs(Sub(Cur(ind.rsi), Prev(ind.rsi))), Y_rsi_volatility_max))
        /\ ret.sideways = "T" => ret.long \in {"-", "F"} /\ ret.short \in {"-", "F"}

C9_Witness ==
    /\ variant = "Yuanbao"
    /\ WeakAndNarrow
    /\ ret.sideways = "T"
    /\ ret.long = "F"
    /\ ret.short = "F"

\* C10: with the higher-timeframe series missing, empty or too short, no
\* call raises and the higher-timeframe item is false, so neither trend
\* that needs it is confirmed.
C10_Unavailable ==
    htf.state # "ok" =>
        /\ \A f \in DOMAIN ret : ret[f] # "E"
        /\ variant # "Yuanbao" => ret.up # "T" /\ ret.down # "T"

\* the band width is_sideways_market() compares with bb_width_threshold
bb_width ==
    CASE variant = "Yuanbao"    -> Y_bb_width
      [] variant = "SMABolling" -> S_bb_width

\* C12: with the Bollinger middle band at zero the band width that
\* is_sideways_market() compares with its threshold is a finite number.
C12_BandWidthFinite ==
    (variant # "Tema" /\ n >= 2 /\ ret.sideways # "-" /\ ind.bb.middleband = 0) =>
        /\ bb_width # NaN
        /\ bb_width # Inf
        /\ bb_width # 0 - Inf

-----------------------------------------------------------------------------
(* Properties of the session (specification SessionSpec) *)

\* the stop distance calculate_position_size divides by
Y_stop_distance == Mul(Y_atr_value[1], Y_stop_loss_atr_multiplier)

\* C4: calculate_position_size() returns a quantity >= 0, which is 0
\* exactly when the capital is below the minimum or the stop distance
\* is not positive.
C4_QtyZeroExactly ==
    (variant = "Yuanbao" /\ last \in {"go_long", "go_short"}) =>
        /\ Ge(qty_ret, 0)
        /\ qty_ret = 0 <=>
              (available_margin < Y_min_margin \/ Le(Y_stop_distance, 0))

BelowMinimum ==
    CASE variant = "Yuanbao"    -> available_margin < Y_min_margin
      [] variant = "SMABolling" -> S_trade_amount_below_min

Level(l) == IF l = <<>> THEN None ELSE l[Len(l)]

LatestAtr == IF variant = "Yuanbao" THEN ind.recent_atr ELSE ind.atr
StopMult  == IF variant = "Yuanbao" THEN Y_stop_loss_atr_multiplier ELSE S_stop_loss_factor

\* C6: with a position open, after the entry and after every later
\* evaluation, stop_loss and take_profit stand at the position's entry price
\* minus / plus the multiples of the latest ATR (mirrored for a short).
C6_LevelsFollowAtr ==
    (position.type # "close" /\ last \in {"on_open_position", "update_position"}) =>
        LET sl == Mul(LatestAtr, StopMult)
            tp == Mul(LatestAtr, Y_take_profit_atr_multiplier)
        IN  IF position.type = "long"
            THEN /\ Level(stop_loss) = Sub(position.entry_price, sl)
                 /\ Level(take_profit) = Add(position.entry_price, tp)
            ELSE /\ Level(stop_loss) = Add(position.entry_price, sl)
                 /\ Level(take_profit) = Sub(position.entry_price, tp)

\* the stop distance sizing divides by, times the denominator of Y_atr_value
Y_stop_distance_num == Mul(Y_atr_value[1], Y_stop_loss_atr_multiplier)

\* C11: the stop distance calculate_position_size() sizes with lies between
\* 0.5% and 10% of the current price, whatever the ATR is.
C11_StopDistanceClamped ==
    (variant = "Yuanbao" /\ last \in {"go_long", "go_short"}
        /\ available_margin >= Y_min_margin) =>
        LET d   == Y_stop_distance_num
            den == Y_atr_value[2]
        IN  /\ Ge(Mul(d, 1000), 5 * Y_close * den)
            /\ Le(Mul(d, 100), 10 * Y_close * den)

\* C13: in YuanbaoSMABollingStrategy the recorded entry price is set exactly
\* while a position is open, update_position() computes its levels from a
\* set entry price and never fails on an unset one, and after
\* on_close_position() entry price, stop_loss and take_profit are cleared.
C13_Lifecycle ==
    variant = "Yuanbao" =>
        /\ entry_price # None <=> position.type # "close"
        /\ (last = "update_position" /\ raised) => ~lib
        /\ (last = "update_position" /\ ~raised /\ stop_loss # <<>>) =>
              /\ entry_price # None
              /\ position.type # "close"
        /\ last = "on_close_position" =>
              /\ position.type = "close"
              /\ entry_price = None
              /\ stop_loss = <<>>
              /\ take_profit = <<>>

\* a position was opened and has been closed again
C13_Witness ==
    /\ variant = "Yuanbao"
    /\ last = "on_close_position"
    /\ position = Flat
    /\ entry_price = None
    /\ stop_loss = <<>>
    /\ take_profit = <<>>

CloseField(c) == c[3]

\* C15: the price a strategy submits its entry at, and the entry price it
\* records at the fill, is the close field of the last candle.
C15_PriceIsCloseField ==
    /\ (last \in {"go_long", "go_short"} /\ buy # <<>>) => buy[2] = CloseField(candle)
    /\ (last \in {"go_long", "go_short"} /\ sell # <<>>) => sell[2] = CloseField(candle)
    /\ (last = "on_open_position" /\ entry_price # None) =>
          entry_price = CloseField(candle)

====
